---- MODULE Spec2Model ----
(***************************************************************************)
(* Model of the AD799x I2C enrichable analyzer                             *)
(* (saleae_enrichable_analyzer/scripts/i2c/AD799x.py and i2c/base.py).     *)
(*                                                                         *)
(* The analyzer is a single-threaded object: the host calls handle_marker  *)
(* once per decoded frame and handle_bubble / handle_tabular once per      *)
(* annotation request.  Its only mutable state is the dict self._packets.  *)
(* Every handler is one action; the value a handler returns (or the        *)
(* exception it raises) is recorded in the variable last.                  *)
(***************************************************************************)
EXTENDS Integers, Sequences, FiniteSets, TLC

VARIABLES
    packets,            \* self._packets: dict packet_id -> list of frames, in arrival order
    address,            \* self._address
    bits,               \* self._bits
    reference_voltage,  \* self._reference_voltage
    last,               \* the last call the host made and what it got back
    alone,              \* history: alone[id] is self._packets of an analyzer that was
                        \* sent only the frames of transaction id, in the same order
    dec_in,             \* register decoder harness: the byte under decoding
    dec_out,            \* register decoder harness: what the decoder returned for dec_in
    adc_in,             \* conversion harness: the first data byte (frame1)
    adc_out             \* conversion harness: what get_adc_value gave for adc_in and
                        \* each second data byte (frame2)

vars == <<packets, address, bits, reference_voltage, last, alone, dec_in, dec_out,
          adc_in, adc_out>>

---------------------------------------------------------------------------
(* Bounds of the model and the inputs the host draws from.                 *)

\* the store holds at most MaxFrames frames in all (the host stops sending new
\* frames then; duplicates and requests go on)
MaxFrames == 4

\* Python's None, the absent packet id (host packet ids are non-negative)
None == -1

\* The frames the host may deliver, as the handle_marker arguments
\* <<packet_id, frame_index, frame_type, flags, value1>>: up to four frames of
\* transaction 1, in any order and with repeats, interleaved with a header
\* frame that carries no packet id.  Values:
\*   144 = 0b1001000 0  header of address 0b1001000, write; as a configuration
\*                      byte: channels 0 and 3, all three delays/filters on
\*   145 = 0b1001000 1  header of address 0b1001000, read
\*   146 = 0b1001001 0  header of another device (address 0b1001001)
\*    42 = 0b00101010   data byte (channel 2, top four bits of the result 0b1010)
\*   188 = 0b10111100   data byte
HostFrames ==
    { <<1, 0, 0, 0, 144>>, <<1, 0, 0, 1, 145>>, <<1, 0, 0, 0, 146>>,
      <<1, 1, 1, 0, 144>>, <<1, 1, 1, 1, 42>>,
      <<1, 2, 1, 0, 145>>, <<1, 2, 1, 1, 188>>,
      <<1, 3, 1, 0, 42>>,
      <<None, 0, 0, 0, 144>> }

\* the transactions and positions the host may ask annotations for
PacketIds == {None, 1}
Positions == 0 .. 3
\* the primary value the host passes in an annotation request
RequestValues == { 42, 188 }

\* configurations the analyzer is constructed with
AddressChoices == { 72 }
BitsChoices == { 12 }
ReferenceVoltageChoices == { 5 }

---------------------------------------------------------------------------
(* Python primitives used by the analyzer.                                 *)

RECURSIVE Pow2(_)
Pow2(n) == IF n <= 0 THEN 1 ELSE 2 * Pow2(n - 1)

\* a & b for non-negative integers
RECURSIVE BitAnd(_, _)
BitAnd(a, b) ==
    IF a = 0 \/ b = 0 THEN 0
    ELSE (IF a % 2 = 1 /\ b % 2 = 1 THEN 1 ELSE 0) + 2 * BitAnd(a \div 2, b \div 2)

\* a >> n and a << n, for n >= 0 (a negative n raises ValueError in Python)
ShiftRight(a, n) == a \div Pow2(n)
ShiftLeft(a, n) == a * Pow2(n)

\* binary digits of n > 0, most significant first
RECURSIVE BinDigits(_)
BinDigits(n) ==
    IF n = 0 THEN "" ELSE BinDigits(n \div 2) \o (IF n % 2 = 1 THEN "1" ELSE "0")

\* bin(n) for n >= 0
bin(n) == IF n = 0 THEN "0b0" ELSE "0b" \o BinDigits(n)

\* str(n) / "{}".format(n) of an integer
str(n) == ToString(n)

\* sep.join(strs)
RECURSIVE join(_, _)
join(sep, strs) ==
    IF Len(strs) = 0 THEN ""
    ELSE IF Len(strs) = 1 THEN strs[1]
    ELSE strs[1] \o sep \o join(sep, Tail(strs))

\* [f[0] for f in s] and [f[1] for f in s]
Firsts(s) == [i \in 1 .. Len(s) |-> s[i][1]]
Seconds(s) == [i \in 1 .. Len(s) |-> s[i][2]]

\* list.index(x): the 0-based index of the first element equal to x, -1 standing
\* for the ValueError Python raises when there is none
ListIndex(s, x) ==
    IF \E i \in 1 .. Len(s) : s[i] = x
    THEN (CHOOSE i \in 1 .. Len(s) : s[i] = x /\ \A j \in 1 .. i - 1 : s[j] # x) - 1
    ELSE -1

\* The values a handler hands back to the host: a list of Python objects, or an
\* exception that leaves the handler.  A list element is a str or an int.
StrObj(s) == [type |-> "str", text |-> s]
IntObj(n) == [type |-> "int", text |-> ToString(n)]
Return(list) == [raised |-> "", list |-> list]
Raise(exc) == [raised |-> exc, list |-> <<>>]

---------------------------------------------------------------------------
(* Frame store.                                                            *)

Frame(frame_index, frame_type, flags, value) ==
    [frame_index |-> frame_index, frame_type |-> frame_type,
     flags |-> flags, value |-> value]

\* self._packets.get(packet_id, [])
PacketsGet(pk, packet_id) ==
    IF packet_id \in DOMAIN pk THEN pk[packet_id] ELSE <<>>

\* store_frame with the position check lost: a later frame replaces the stored one
store_frame_last_wins(pk, packet_id, frame_index, frame_type, flags, value) ==
    LET old == PacketsGet(pk, packet_id)
        kept == SelectSeq(old, LAMBDA f : f.frame_index # frame_index)
        new == Append(kept, Frame(frame_index, frame_type, flags, value))
    IN  [k \in DOMAIN pk \cup {packet_id} |-> IF k = packet_id THEN new ELSE pk[k]]

\* store_frame that starts over when a new transaction begins
store_frame_one_packet(pk, packet_id, frame_index, frame_type, flags, value) ==
    IF packet_id \in DOMAIN pk
    THEN IF \E i \in 1 .. Len(pk[packet_id]) :
                pk[packet_id][i].frame_index = frame_index
         THEN pk
         ELSE [pk EXCEPT ![packet_id] =
                  Append(@, Frame(frame_index, frame_type, flags, value))]
    ELSE [k \in {packet_id} |-> <<Frame(frame_index, frame_type, flags, value)>>]

\* store_frame: create the list on first use, append unless the position is taken
store_frame(pk, packet_id, frame_index, frame_type, flags, value) ==
    LET created == IF packet_id \in DOMAIN pk
                   THEN pk
                   ELSE [k \in DOMAIN pk \cup {packet_id} |->
                            IF k = packet_id THEN <<>> ELSE pk[k]]
    IN  IF ~ \E i \in 1 .. Len(created[packet_id]) :
                created[packet_id][i].frame_index = frame_index
        THEN [created EXCEPT ![packet_id] =
                 Append(@, Frame(frame_index, frame_type, flags, value))]
        ELSE created

\* sorted(list, key=frame_index): stable, ascending.  Insert keeps an element
\* after the elements already placed whose key is less than or equal to its own.
RECURSIVE Insert(_, _)
Insert(sortedSeq, f) ==
    IF Len(sortedSeq) = 0 THEN <<f>>
    ELSE IF Head(sortedSeq).frame_index <= f.frame_index
         THEN <<Head(sortedSeq)>> \o Insert(Tail(sortedSeq), f)
         ELSE <<f>> \o sortedSeq

RECURSIVE SortedByFrameIndex(_)
SortedByFrameIndex(s) ==
    IF Len(s) = 0 THEN <<>>
    ELSE Insert(SortedByFrameIndex(SubSeq(s, 1, Len(s) - 1)), s[Len(s)])

\* get_packet_frames without the sort: the frames in arrival order
get_packet_frames_unsorted(pk, packet_id) == PacketsGet(pk, packet_id)

\* get_packet_frames sorting with reverse=True: the highest position first
get_packet_frames_descending(pk, packet_id) ==
    LET ascending == SortedByFrameIndex(PacketsGet(pk, packet_id))
    IN  [i \in 1 .. Len(ascending) |-> ascending[Len(ascending) + 1 - i]]

get_packet_frames(pk, packet_id) == SortedByFrameIndex(PacketsGet(pk, packet_id))

RECURSIVE StoredIn(_, _)
StoredIn(pk, ids) ==
    IF ids = {} THEN 0
    ELSE LET id == CHOOSE i \in ids : TRUE
         IN  Len(pk[id]) + StoredIn(pk, ids \ {id})

\* number of frames the store holds, over all transactions
StoredFrames(pk) == StoredIn(pk, DOMAIN pk)

\* get_packet_length that counts the frames of every transaction
get_packet_length_whole_store(pk, packet_id) == StoredFrames(pk)

\* len(self._packets[packet_id]); the subscript raises KeyError for an unknown id
get_packet_length_raises(pk, packet_id) == packet_id \notin DOMAIN pk
get_packet_length(pk, packet_id) == Len(pk[packet_id])

\* [f['frame_index'] for f in frames].index(frame_index), -1 for ValueError
\* get_packet_frame_index that counts ranks from one
get_packet_frame_index_one_based(pk, packet_id, frame_index) ==
    LET frames == get_packet_frames(pk, packet_id)
        at == ListIndex([i \in 1 .. Len(frames) |-> frames[i].frame_index],
                        frame_index)
    IN  IF at = -1 THEN -1 ELSE at + 1

\* get_packet_frame_index that answers the raw position of a stored frame
get_packet_frame_index_raw_position(pk, packet_id, frame_index) ==
    LET frames == get_packet_frames(pk, packet_id)
    IN  IF \E i \in 1 .. Len(frames) : frames[i].frame_index = frame_index
        THEN frame_index
        ELSE -1

get_packet_frame_index(pk, packet_id, frame_index) ==
    LET frames == get_packet_frames(pk, packet_id)
    IN  ListIndex([i \in 1 .. Len(frames) |-> frames[i].frame_index], frame_index)

\* get_packet_nth_frame over the buffer as it stands: the idx-th frame to arrive
get_packet_nth_frame_arrival_order(pk, packet_id, idx) ==
    PacketsGet(pk, packet_id)[idx + 1]

\* get_packet_frames(packet_id)[idx]; the subscript raises IndexError when idx
\* is not below the length
get_packet_nth_frame_raises(pk, packet_id, idx) ==
    idx >= Len(get_packet_frames(pk, packet_id))
get_packet_nth_frame(pk, packet_id, idx) ==
    get_packet_frames(pk, packet_id)[idx + 1]

\* hex(packet_id) in the handlers' log calls raises TypeError for None
hex_raises(packet_id) == packet_id = None

---------------------------------------------------------------------------
(* Register decoder.                                                       *)

\* get_configuration_settings with the filter bit read as an enable bit (the
\* "not" of the SDA and SCL Filtering entry lost)
get_configuration_settings_filter_bit(value) ==
    LET channels == << <<"0", BitAnd(value, 16) # 0>>, <<"1", BitAnd(value, 32) # 0>>,
                       <<"2", BitAnd(value, 64) # 0>>, <<"3", BitAnd(value, 128) # 0>> >>
        features ==
            << << <<"External Reference", "Ext Ref">>, BitAnd(value, 8) # 0 >>,
               << <<"SDA and SCL Filtering", "Filter">>, BitAnd(value, 4) # 0 >>,
               << <<"Bit Trial Delay", "Bit Trial">>, BitAnd(value, 2) = 0 >>,
               << <<"Sample Delay", "Samp. Del.">>, BitAnd(value, 1) = 0 >> >>
        Enabled(items) == SelectSeq(items, LAMBDA it : it[2])
    IN  [channels |-> Firsts(Enabled(channels)),
         features |-> Firsts(Enabled(features))]

\* get_configuration_settings: the channel names and the (long, short) feature
\* names a configuration byte enables, each in the order of its dict literal
get_configuration_settings(value) ==
    LET ch3 == BitAnd(value, ShiftLeft(1, 7))
        ch2 == BitAnd(value, ShiftLeft(1, 6))
        ch1 == BitAnd(value, ShiftLeft(1, 5))
        ch0 == BitAnd(value, ShiftLeft(1, 4))
        channels == << <<"0", ch0 # 0>>, <<"1", ch1 # 0>>,
                       <<"2", ch2 # 0>>, <<"3", ch3 # 0>> >>
        ref_sel == BitAnd(value, ShiftLeft(1, 3))
        fltr == BitAnd(value, ShiftLeft(1, 2))
        bit_trial == BitAnd(value, ShiftLeft(1, 1))
        sample == BitAnd(value, ShiftLeft(1, 0))
        features ==
            << << <<"External Reference", "Ext Ref">>, ref_sel # 0 >>,
               << <<"SDA and SCL Filtering", "Filter">>, ~ (fltr # 0) >>,
               << <<"Bit Trial Delay", "Bit Trial">>, ~ (bit_trial # 0) >>,
               << <<"Sample Delay", "Samp. Del.">>, ~ (sample # 0) >> >>
        Enabled(items) == SelectSeq(items, LAMBDA it : it[2])
    IN  [channels |-> Firsts(Enabled(channels)),
         features |-> Firsts(Enabled(features))]

\* get_adc_channel
\* get_adc_channel that reads the channel one bit too high (bits 6:5)
get_adc_channel_bits65(frame1) == BitAnd(ShiftRight(frame1, 5), 3)

get_adc_channel(frame1) == BitAnd(ShiftRight(frame1, 4), 3)

\* get_adc_value: a shift by a negative count raises ValueError
get_adc_value_raises(frame1, frame2) ==
    LET frame_one_left_shift == bits - 4
        frame_two_right_shift == 0 - (bits - 12)
    IN  frame_one_left_shift < 0 \/ frame_two_right_shift < 0

\* get_adc_value that forgets to drop the padding bits of the second byte
get_adc_value_no_justify(frame1, frame2) ==
    LET frame_one_left_shift == bits - 4
        msb == ShiftLeft(BitAnd(frame1, 15), frame_one_left_shift)
        lsb == frame2
    IN  msb + lsb

get_adc_value(frame1, frame2) ==
    LET frame_one_left_shift == bits - 4
        frame_two_right_shift == 0 - (bits - 12)
        msb == ShiftLeft(BitAnd(frame1, 15), frame_one_left_shift)
        lsb == ShiftRight(frame2, frame_two_right_shift)
    IN  msb + lsb

---------------------------------------------------------------------------
(* Presentation.                                                           *)

\* "{:.4f}".format(num / den) for num >= 0, den > 0, where num / den is a float
\* without rounding error (den is a power of two): the decimal expansion is
\* rounded to four places, a tie going to the even digit
FormatFixed4(num, den) ==
    LET scaled == num * 10000
        q == scaled \div den
        r == scaled % den
        rounded == IF 2 * r > den \/ (2 * r = den /\ q % 2 = 1) THEN q + 1 ELSE q
        frac == rounded % 10000
        pad == IF frac < 10 THEN "000"
               ELSE IF frac < 100 THEN "00"
               ELSE IF frac < 1000 THEN "0" ELSE ""
    IN  ToString(rounded \div 10000) \o "." \o pad \o ToString(frac)

\* get_displayable_adc_value; reference_voltage is None or a whole number of
\* volts, and None and 0.0 are both false in "if not self._reference_voltage"
\* get_displayable_adc_value that tests "is None" where the code tests "not"
get_displayable_adc_value_is_none(value) ==
    IF reference_voltage = None
    THEN str(value)
    ELSE FormatFixed4(value * reference_voltage, Pow2(bits))
             \o " V (" \o str(value) \o ")"

get_displayable_adc_value(value) ==
    IF reference_voltage = None \/ reference_voltage = 0
    THEN str(value)
    ELSE FormatFixed4(value * reference_voltage, Pow2(bits))
             \o " V (" \o str(value) \o ")"

\* the address test with the shift one bit too far: compares the upper 6 bits
not_our_device_upper6(address_frame) ==
    ShiftRight(address_frame.value, 2) # ShiftRight(address, 1)

\* address_frame['value'] >> 1 != self._address
not_our_device(address_frame) ==
    ShiftRight(address_frame.value, 1) # address

\* is_read = address_frame['value'] & 0b1, used as a truth value
header_is_read(address_frame) == BitAnd(address_frame.value, 1) # 0

\* the shape test written with < for "not ==": only short transactions are held back
not_enough_data_less_than(length, is_read) ==
    \/ (length < 2 /\ ~ is_read)
    \/ (length < 3 /\ is_read)

\* the shape test that lets a read run on: a read needs three frames or more
not_enough_data_read_open(length, is_read) ==
    \/ (~ (length = 2) /\ ~ is_read)
    \/ (length < 3 /\ is_read)

\* (not length == 2 and is_write) or (not length == 3 and is_read)
not_enough_data(length, is_read) ==
    \/ (~ (length = 2) /\ ~ is_read)
    \/ (~ (length = 3) /\ is_read)

\* I2CAnalyzer.packet_address_matches (base.py), over the same store: "False",
\* "True", or the TypeError of hex(None) in its log call
packet_address_matches(pk, packet_id) ==
    IF get_packet_nth_frame_raises(pk, packet_id, 0)
    THEN IF hex_raises(packet_id) THEN "TypeError" ELSE "False"
    ELSE IF not_our_device(get_packet_nth_frame(pk, packet_id, 0))
         THEN "False"
         ELSE "True"

\* handle_bubble, from the store pk
handle_bubble(pk, packet_id, frame_index, value) ==
    IF get_packet_nth_frame_raises(pk, packet_id, 0)
    THEN \* except IndexError: logger.error(..., hex(packet_id)); return []
         IF hex_raises(packet_id) THEN Raise("TypeError") ELSE Return(<<>>)
    ELSE
    LET address_frame == get_packet_nth_frame(pk, packet_id, 0)
    IN  IF not_our_device(address_frame)
        THEN Return(<<>>)
        ELSE
        LET is_read == header_is_read(address_frame)
            is_write == ~ is_read
        IN  IF get_packet_length_raises(pk, packet_id)
            THEN Raise("KeyError")
            ELSE
            IF not_enough_data(get_packet_length(pk, packet_id), is_read)
            THEN Return(<<>>)
            ELSE
            LET rank == get_packet_frame_index(pk, packet_id, frame_index)
            IN  IF rank = -1 THEN Raise("ValueError")
                ELSE IF is_write /\ rank = 0
                THEN Return(<< StrObj("Write to ADC Configuration"),
                               StrObj("W to ADC"), StrObj("W") >>)
                ELSE IF is_write /\ rank = 1
                THEN LET conf == get_configuration_settings(value)
                         ch_enabled == conf.channels
                         feat_enabled == conf.features
                     IN  Return(<<
                            StrObj("Channels: " \o join(", ", ch_enabled)
                                   \o "; Features: "
                                   \o join(", ", Firsts(feat_enabled))),
                            StrObj("Ch: " \o join("/", ch_enabled)
                                   \o "; Feat: "
                                   \o join("/", Seconds(feat_enabled))),
                            StrObj("Ch: " \o join("/", ch_enabled)
                                   \o "; Feat: " \o bin(BitAnd(value, 15))),
                            StrObj("Ch: " \o join("/", ch_enabled)),
                            StrObj(join("/", ch_enabled)),
                            StrObj(bin(value)) >>)
                ELSE IF ~ is_write /\ rank = 0
                THEN Return(<< StrObj("Read ADC Value"),
                               StrObj("R from ADC"), StrObj("R") >>)
                ELSE IF ~ is_write /\ rank = 1
                THEN LET channel == get_adc_channel(value)
                     IN  Return(<< StrObj("Channel: " \o str(channel)),
                                   StrObj("Ch: " \o str(channel)),
                                   IntObj(channel) >>)
                ELSE IF ~ is_write /\ rank = 2
                THEN IF get_packet_nth_frame_raises(pk, packet_id, 1)
                     THEN Raise("IndexError")
                     ELSE
                     LET frame_one == get_packet_nth_frame(pk, packet_id, 1)
                     IN  IF get_adc_value_raises(frame_one.value, value)
                         THEN Raise("ValueError")
                         ELSE Return(<< StrObj(get_displayable_adc_value(
                                  get_adc_value(frame_one.value, value))) >>)
                ELSE Return(<< StrObj(bin(value)) >>)

no_result == << StrObj(" ") >>

\* handle_tabular, from the store pk (sda is the request's primary value)
handle_tabular(pk, packet_id, frame_index, sda) ==
    IF get_packet_nth_frame_raises(pk, packet_id, 0)
    THEN IF hex_raises(packet_id) THEN Raise("TypeError") ELSE Return(no_result)
    ELSE
    LET address_frame == get_packet_nth_frame(pk, packet_id, 0)
    IN  IF not_our_device(address_frame)
        THEN Return(no_result)
        ELSE
        LET is_read == header_is_read(address_frame)
            is_write == ~ is_read
        IN  IF get_packet_length_raises(pk, packet_id)
            THEN Raise("KeyError")
            ELSE
            IF not_enough_data(get_packet_length(pk, packet_id), is_read)
            THEN Return(no_result)
            ELSE
            LET rank == get_packet_frame_index(pk, packet_id, frame_index)
            IN  IF rank = -1 THEN Raise("ValueError")
                ELSE IF rank # 1 THEN Return(no_result)
                ELSE IF is_write
                THEN LET configuration_frame ==
                             get_packet_nth_frame(pk, packet_id, 1)
                         conf == get_configuration_settings(
                                     configuration_frame.value)
                     IN  Return(<< StrObj(
                             "[ADC config] Channels enabled: "
                             \o join(", ", conf.channels)
                             \o "; Features enabled: "
                             \o join(", ", Firsts(conf.features))) >>)
                ELSE LET frame_one == get_packet_nth_frame(pk, packet_id, 1)
                         frame_two == get_packet_nth_frame(pk, packet_id, 2)
                         channel == get_adc_channel(frame_one.value)
                     IN  IF get_adc_value_raises(frame_one.value, frame_two.value)
                         THEN Raise("ValueError")
                         ELSE Return(<< StrObj(
                                  "[ADC read] channel " \o str(channel) \o ": "
                                  \o get_displayable_adc_value(get_adc_value(
                                         frame_one.value, frame_two.value))) >>)

---------------------------------------------------------------------------
(* The analyzer as a state machine.                                        *)

Call(op, packet_id, frame_index, frame_type, flags, value, ret) ==
    [op |-> op, packet_id |-> packet_id, frame_index |-> frame_index,
     frame_type |-> frame_type, flags |-> flags, value |-> value, ret |-> ret]

NotDecoded == [done |-> FALSE, channels |-> <<>>, features |-> <<>>]

NotConverted == [done |-> FALSE, result |-> <<>>]

\* __init__: the configuration from the command line, an empty store
Init ==
    /\ packets = << >>
    /\ address \in AddressChoices
    /\ bits \in BitsChoices
    /\ reference_voltage \in ReferenceVoltageChoices
    /\ last = Call("init", None, 0, 0, 0, 0, Return(<<>>))
    /\ alone = [id \in PacketIds |-> << >>]
    /\ dec_in = 0
    /\ dec_out = NotDecoded
    /\ adc_in = 0
    /\ adc_out = NotConverted

\* handle_marker: store the frame, return []
HandleMarker ==
    \E inp \in HostFrames :
        LET packet_id == inp[1]
            frame_index == inp[2]
            frame_type == inp[3]
            flags == inp[4]
            value1 == inp[5]
            stored == store_frame(packets, packet_id, frame_index,
                                  frame_type, flags, value1)
        IN  /\ StoredFrames(stored) <= MaxFrames
            /\ packets' = stored
            /\ alone' = [alone EXCEPT ![packet_id] =
                            store_frame(@, packet_id, frame_index,
                                        frame_type, flags, value1)]
            /\ last' = Call("marker", packet_id, frame_index, frame_type, flags,
                            value1, Return(<<>>))
            /\ UNCHANGED <<address, bits, reference_voltage, dec_in, dec_out,
                           adc_in, adc_out>>

\* handle_bubble: reads the store, returns the candidate strings
HandleBubble ==
    \E packet_id \in PacketIds, frame_index \in Positions, value \in RequestValues :
        /\ last' = Call("bubble", packet_id, frame_index, 0, 0, value,
                        handle_bubble(packets, packet_id, frame_index, value))
        /\ UNCHANGED <<packets, alone, address, bits, reference_voltage,
                       dec_in, dec_out, adc_in, adc_out>>

\* handle_tabular: reads the store, returns the summary line or the placeholder
HandleTabular ==
    \E packet_id \in PacketIds, frame_index \in Positions, sda \in RequestValues :
        /\ last' = Call("tabular", packet_id, frame_index, 0, 0, sda,
                        handle_tabular(packets, packet_id, frame_index, sda))
        /\ UNCHANGED <<packets, alone, address, bits, reference_voltage,
                       dec_in, dec_out, adc_in, adc_out>>

Next == HandleMarker \/ HandleBubble \/ HandleTabular

Spec == Init /\ [][Next]_vars

\* the same analyzer constructed with any of the --reference-voltage settings:
\* left out (None), 0.0, or a voltage
ReferenceVoltageOptions == { None, 0, 5 }

InitReference ==
    /\ packets = << >>
    /\ address \in AddressChoices
    /\ bits \in BitsChoices
    /\ reference_voltage \in ReferenceVoltageOptions
    /\ last = Call("init", None, 0, 0, 0, 0, Return(<<>>))
    /\ alone = [id \in PacketIds |-> << >>]
    /\ dec_in = 0
    /\ dec_out = NotDecoded
    /\ adc_in = 0
    /\ adc_out = NotConverted

SpecReference == InitReference /\ [][Next]_vars

---------------------------------------------------------------------------
(* The register decoder alone, applied to every byte.                      *)

InitDecoder ==
    /\ packets = << >>
    /\ address \in AddressChoices
    /\ bits \in BitsChoices
    /\ reference_voltage \in ReferenceVoltageChoices
    /\ last = Call("init", None, 0, 0, 0, 0, Return(<<>>))
    /\ alone = [id \in PacketIds |-> << >>]
    /\ dec_in \in 0 .. 255
    /\ dec_out = NotDecoded
    /\ adc_in = 0
    /\ adc_out = NotConverted

Decode ==
    /\ ~ dec_out.done
    /\ LET conf == get_configuration_settings(dec_in)
       IN  dec_out' = [done |-> TRUE, channels |-> conf.channels,
                       features |-> conf.features]
    /\ UNCHANGED <<packets, address, bits, reference_voltage, last, alone, dec_in,
                   adc_in, adc_out>>

NextDecoder == Decode

SpecDecoder == InitDecoder /\ [][NextDecoder]_vars

---------------------------------------------------------------------------
(* The conversion get_adc_value alone, for every pair of data bytes and    *)
(* for resolutions within and beyond the device family (--bits is any int).*)

AdcBitsChoices == { 8, 10, 12, 13, 14, 16 }

InitAdc ==
    /\ packets = << >>
    /\ address \in AddressChoices
    /\ bits \in AdcBitsChoices
    /\ reference_voltage \in ReferenceVoltageChoices
    /\ last = Call("init", None, 0, 0, 0, 0, Return(<<>>))
    /\ alone = [id \in PacketIds |-> << >>]
    /\ dec_in = 0
    /\ dec_out = NotDecoded
    /\ adc_in \in 0 .. 255
    /\ adc_out = NotConverted

\* get_adc_value(adc_in, frame2) for each byte frame2: the integer returned, or
\* the exception raised
Convert ==
    /\ ~ adc_out.done
    /\ adc_out' =
           [done |-> TRUE,
            result |-> [frame2 \in 0 .. 255 |->
                IF get_adc_value_raises(adc_in, frame2)
                THEN [raised |-> "ValueError", value |-> 0]
                ELSE [raised |-> "", value |-> get_adc_value(adc_in, frame2)]]]
    /\ UNCHANGED <<packets, address, bits, reference_voltage, last, alone,
                   dec_in, dec_out, adc_in>>

NextAdc == Convert

SpecAdc == InitAdc /\ [][NextAdc]_vars

---------------------------------------------------------------------------
(* Properties.                                                             *)

IsPrefix(s, t) == Len(s) <= Len(t) /\ \A i \in 1 .. Len(s) : s[i] = t[i]

UniquePositions(s) ==
    \A i, j \in 1 .. Len(s) : s[i].frame_index = s[j].frame_index => i = j

HasPosition(pk, packet_id, frame_index) ==
    \E i \in 1 .. Len(PacketsGet(pk, packet_id)) :
        PacketsGet(pk, packet_id)[i].frame_index = frame_index

StoredAt(pk, packet_id, frame_index) ==
    CHOOSE f \in { PacketsGet(pk, packet_id)[i] :
                       i \in 1 .. Len(PacketsGet(pk, packet_id)) } :
        f.frame_index = frame_index

\* C1: every transaction holds at most one frame per position; no event removes
\* or alters a stored frame (each buffer only grows at its end); and a frame
\* arrival for a position that is already stored leaves the whole store, so
\* also the stored kind/flags/value and the frame count, as it was.
C1_FirstWriteWins ==
    [][ /\ \A id \in DOMAIN packets :
              id \in DOMAIN packets' /\ IsPrefix(packets[id], packets'[id])
        /\ \A id \in DOMAIN packets' : UniquePositions(packets'[id])
        /\ (last'.op = "marker"
              /\ HasPosition(packets, last'.packet_id, last'.frame_index))
           => packets' = packets
      ]_vars

\* a frame arrived for a stored position with another value, and the first
\* value is the one held
C1_Witness ==
    /\ last.op = "marker"
    /\ HasPosition(packets, last.packet_id, last.frame_index)
    /\ StoredAt(packets, last.packet_id, last.frame_index).value # last.value
    /\ Len(packets[last.packet_id]) >= 2

\* the store of an analyzer that received exactly the frames fs, in that order,
\* for transaction packet_id
RECURSIVE Delivered(_, _)
Delivered(fs, packet_id) ==
    IF Len(fs) = 0 THEN << >>
    ELSE LET f == fs[Len(fs)]
         IN  store_frame(Delivered(SubSeq(fs, 1, Len(fs) - 1), packet_id),
                         packet_id, f.frame_index, f.frame_type, f.flags, f.value)

\* C2: get_packet_frames returns exactly the stored frames, in strictly
\* ascending position order, and returns the same sequence for every other
\* arrival order of the same frames.
C2_OrderedFrames ==
    \A id \in PacketIds :
        LET st == PacketsGet(packets, id)
            fr == get_packet_frames(packets, id)
        IN  /\ Len(fr) = Len(st)
            /\ { fr[i] : i \in 1 .. Len(fr) } = { st[i] : i \in 1 .. Len(st) }
            /\ \A i \in 1 .. Len(fr) - 1 :
                   fr[i].frame_index < fr[i + 1].frame_index
            /\ \A perm \in Permutations(1 .. Len(st)) :
                   get_packet_frames(
                       Delivered([i \in 1 .. Len(st) |-> st[perm[i]]], id), id) = fr

\* three frames arrived out of order (positions 1, 0, 2 for instance)
C2_Witness ==
    \E id \in DOMAIN packets :
        /\ Len(packets[id]) = 3
        /\ packets[id][1].frame_index > packets[id][2].frame_index
        /\ packets[id][2].frame_index < packets[id][3].frame_index

\* the last call was an annotation request
IsRequest == last.op \in {"bubble", "tabular"}

\* what a request answers when it has nothing to show: bubble [], tabular [' ']
NothingToShow(op) ==
    IF op = "bubble"
    THEN [raised |-> "", list |-> << >>]
    ELSE [raised |-> "", list |-> << [type |-> "str", text |-> " "] >>]

StoredFramesOf(pk, packet_id) ==
    { PacketsGet(pk, packet_id)[i] : i \in 1 .. Len(PacketsGet(pk, packet_id)) }

\* the header of a transaction: its stored frame of least position (rank 0)
HeaderOf(pk, packet_id) ==
    CHOOSE f \in StoredFramesOf(pk, packet_id) :
        \A g \in StoredFramesOf(pk, packet_id) : f.frame_index <= g.frame_index

\* the rank of a position: the number of stored positions below it
RankOf(pk, packet_id, frame_index) ==
    Cardinality({ f \in StoredFramesOf(pk, packet_id) : f.frame_index < frame_index })

\* the number of frames a transaction with this header must hold to be shown
FramesRequired(header) == IF header.value % 2 = 0 THEN 2 ELSE 3

\* C3 (as claimed): every bubble-text and tabular-text request returns a list;
\* none raises an exception to the host.
C3_NeverRaises ==
    IsRequest => last.ret.raised = ""

\* C4: when the header byte's upper 7 bits differ from the configured address,
\* a bubble-text request returns [] and a tabular-text request returns [' '],
\* whatever else is stored and whatever position is asked for (and
\* packet_address_matches answers False).
C4_AddressMismatch ==
    ( /\ IsRequest
      /\ StoredFramesOf(packets, last.packet_id) # {}
      /\ HeaderOf(packets, last.packet_id).value \div 2 # address )
    => /\ last.ret = NothingToShow(last.op)
       /\ packet_address_matches(packets, last.packet_id) = "False"

\* a request for a stored position of a two-frame transaction whose header
\* names another device
C4_Witness ==
    /\ last.op = "bubble"
    /\ Len(PacketsGet(packets, last.packet_id)) = 2
    /\ HasPosition(packets, last.packet_id, last.frame_index)
    /\ HasPosition(packets, last.packet_id, 0)
    /\ HeaderOf(packets, last.packet_id).value \div 2 # address
    /\ last.ret.list = << >>

\* C5: for a transaction whose header matches the address, a request returns
\* something to show only if the transaction holds exactly 2 frames (write
\* header) or exactly 3 frames (read header); with fewer or more frames the
\* bubble result is [] and the tabular result is [' '].
C5_ShapeGate ==
    ( /\ IsRequest
      /\ StoredFramesOf(packets, last.packet_id) # {}
      /\ HeaderOf(packets, last.packet_id).value \div 2 = address )
    => LET n == Cardinality(StoredFramesOf(packets, last.packet_id))
           need == FramesRequired(HeaderOf(packets, last.packet_id))
       IN  /\ (last.ret.raised = "" /\ last.ret # NothingToShow(last.op))
                  => n = need
           /\ n # need => last.ret = NothingToShow(last.op)

\* a request on a read transaction of the device that holds four frames
C5_Witness ==
    /\ last.op = "tabular"
    /\ HasPosition(packets, last.packet_id, 0)
    /\ HeaderOf(packets, last.packet_id).value = 2 * address + 1
    /\ Cardinality(StoredFramesOf(packets, last.packet_id)) = 4
    /\ RankOf(packets, last.packet_id, last.frame_index) = 1
    /\ last.ret = NothingToShow("tabular")

\* C6 (as claimed): a tabular-text request always returns a list of exactly
\* one element, and the element is not the placeholder only when the position
\* asked for has rank 1 in a complete transaction of the configured device.
C6_TabularOneElement ==
    last.op = "tabular"
    => /\ last.ret.raised = ""
       /\ Len(last.ret.list) = 1
       /\ last.ret # NothingToShow("tabular")
          => /\ HasPosition(packets, last.packet_id, last.frame_index)
             /\ RankOf(packets, last.packet_id, last.frame_index) = 1
             /\ HeaderOf(packets, last.packet_id).value \div 2 = address
             /\ Cardinality(StoredFramesOf(packets, last.packet_id))
                    = FramesRequired(HeaderOf(packets, last.packet_id))

\* C7 (as claimed): while a transaction has no stored frame at position 0, for
\* any transaction identifier including the absent one, a bubble-text request
\* returns [] and a tabular-text request returns [' '].
C7_NoHeaderNoOutput ==
    (IsRequest /\ ~ HasPosition(packets, last.packet_id, 0))
    => last.ret = NothingToShow(last.op)

\* C8: the store changes only through frame arrivals.  A frame arrival returns
\* [] and changes at most the buffer of the transaction it names; bubble-text
\* and tabular-text requests leave the whole store as it was.
C8_StoreChangesOnlyOnArrival ==
    [][ /\ last'.op = "marker"
           => /\ last'.ret = [raised |-> "", list |-> << >>]
              /\ DOMAIN packets' \subseteq DOMAIN packets \cup {last'.packet_id}
              /\ \A id \in DOMAIN packets \ {last'.packet_id} :
                     id \in DOMAIN packets' /\ packets'[id] = packets[id]
        /\ last'.op \in {"bubble", "tabular"} => packets' = packets
        /\ packets' # packets => last'.op = "marker"
      ]_vars

\* a frame of one transaction arrived and was stored while the other
\* transaction held frames
C8_Witness ==
    /\ last.op = "marker"
    /\ DOMAIN packets = PacketIds
    /\ packets[last.packet_id][Len(packets[last.packet_id])].frame_index
           = last.frame_index
    /\ Len(packets[last.packet_id]) >= 2

\* C9: frames of other transactions do not change what a request answers.
\* alone[id] is the store of a run that delivered only the frames of
\* transaction id, in the same order; every request answers in the interleaved
\* run what it answers in that run.
C9_OtherTransactionsDoNotInterfere ==
    /\ last.op = "bubble"
       => last.ret = handle_bubble(alone[last.packet_id], last.packet_id,
                                   last.frame_index, last.value)
    /\ last.op = "tabular"
       => last.ret = handle_tabular(alone[last.packet_id], last.packet_id,
                                    last.frame_index, last.value)

\* a request on a complete transaction answered with text while the store also
\* holds frames of the other transaction
C9_Witness ==
    /\ last.op = "bubble"
    /\ last.ret.raised = ""
    /\ Len(last.ret.list) > 1
    /\ DOMAIN packets = PacketIds
    /\ alone[last.packet_id] # packets

\* C10: for every byte b, get_configuration_settings returns as channels the
\* labels k of 0..3 whose bit 4+k is set, ascending, and as features External
\* Reference iff bit 3 is 1, SDA and SCL Filtering iff bit 2 is 0, Bit Trial
\* Delay iff bit 1 is 0, Sample Delay iff bit 0 is 0, in that order.
C10_ConfigurationBits ==
    dec_out.done
    => LET Bit(k) == (dec_in \div (2 ^ k)) % 2
           OnIf(names, on) == IF on THEN <<names>> ELSE << >>
       IN  /\ dec_out.channels =
                  OnIf("0", Bit(4) = 1) \o OnIf("1", Bit(5) = 1)
                  \o OnIf("2", Bit(6) = 1) \o OnIf("3", Bit(7) = 1)
           /\ dec_out.features =
                  OnIf(<<"External Reference", "Ext Ref">>, Bit(3) = 1)
                  \o OnIf(<<"SDA and SCL Filtering", "Filter">>, Bit(2) = 0)
                  \o OnIf(<<"Bit Trial Delay", "Bit Trial">>, Bit(1) = 0)
                  \o OnIf(<<"Sample Delay", "Samp. Del.">>, Bit(0) = 0)

\* the byte 0b10100110 decoded: channels 1 and 3, bit-trial and filter off
C10_Witness ==
    /\ dec_out.done
    /\ dec_in = 166
    /\ dec_out.channels = <<"1", "3">>
    /\ dec_out.features = << <<"Sample Delay", "Samp. Del.">> >>

\* C11: for a resolution of 8, 10 or 12 bits and all data bytes frame1, frame2,
\* get_adc_value returns (frame1 & 0xF) * 2^(bits - 4) + frame2 div 2^(12 - bits)
\* without raising; the second summand lies below the lowest bit of the first
\* (no bit belongs to both), and the result lies in 0 .. 2^bits - 1.
C11_AdcCode ==
    (adc_out.done /\ bits \in {8, 10, 12})
    => \A frame2 \in 0 .. 255 :
          LET high == (adc_in % 16) * (2 ^ (bits - 4))
              low == frame2 \div (2 ^ (12 - bits))
              got == adc_out.result[frame2]
          IN  /\ got.raised = ""
              /\ got.value = high + low
              /\ low < 2 ^ (bits - 4)
              /\ high % (2 ^ (bits - 4)) = 0
              /\ got.value >= 0
              /\ got.value <= (2 ^ bits) - 1

\* the two examples: bytes 0x0A, 0xBC give 2748 at 12 bits and 171 at 8 bits
C11_Witness ==
    /\ adc_out.done
    /\ adc_in = 10
    /\ \/ bits = 12 /\ adc_out.result[188].value = 2748
       \/ bits = 8 /\ adc_out.result[188].value = 171

\* the transaction holds a header of the configured device and exactly the
\* number of frames its header asks for
CompleteOfDevice(pk, packet_id) ==
    /\ StoredFramesOf(pk, packet_id) # {}
    /\ HeaderOf(pk, packet_id).value \div 2 = address
    /\ Cardinality(StoredFramesOf(pk, packet_id))
           = FramesRequired(HeaderOf(pk, packet_id))

CompleteWrite(pk, packet_id) ==
    CompleteOfDevice(pk, packet_id) /\ HeaderOf(pk, packet_id).value % 2 = 0

CompleteRead(pk, packet_id) ==
    CompleteOfDevice(pk, packet_id) /\ HeaderOf(pk, packet_id).value % 2 = 1

\* the last call was a bubble-text request for the stored position of rank k
BubbleForRank(k) ==
    /\ last.op = "bubble"
    /\ HasPosition(packets, last.packet_id, last.frame_index)
    /\ RankOf(packets, last.packet_id, last.frame_index) = k

\* n >= 0 written as a binary literal, most significant digit first
RECURSIVE BinaryDigits(_)
BinaryDigits(n) ==
    IF n < 2 THEN (IF n = 1 THEN "1" ELSE "0")
    ELSE BinaryDigits(n \div 2) \o (IF n % 2 = 1 THEN "1" ELSE "0")

BinaryLiteral(n) == "0b" \o BinaryDigits(n)

\* C12 (as claimed): for a complete write transaction of the configured device,
\* the bubble-text request for the rank-1 frame returns exactly five strings,
\* the last of which is the configuration byte as a binary literal.
C12_FiveStrings ==
    (BubbleForRank(1) /\ CompleteWrite(packets, last.packet_id))
    => /\ last.ret.raised = ""
       /\ Len(last.ret.list) = 5
       /\ last.ret.list[5] = [type |-> "str", text |-> BinaryLiteral(last.value)]

\* C12 (amended): for a complete write transaction of the configured device,
\* the bubble-text request for the rank-1 frame returns exactly six strings,
\* decoded from the value the request carries: channels and features by long
\* name; by short name; channels and the low four bits as a binary literal;
\* the channels after "Ch: "; the channels alone; and last the whole value as
\* a binary literal.
C12_SixStrings ==
    (BubbleForRank(1) /\ CompleteWrite(packets, last.packet_id))
    => LET conf == get_configuration_settings(last.value)
           slashed == join("/", conf.channels)
           Text(i) == last.ret.list[i].text
       IN  /\ last.ret.raised = ""
           /\ Len(last.ret.list) = 6
           /\ \A i \in 1 .. 6 : last.ret.list[i].type = "str"
           /\ Text(1) = "Channels: " \o join(", ", conf.channels)
                            \o "; Features: " \o join(", ", Firsts(conf.features))
           /\ Text(2) = "Ch: " \o slashed
                            \o "; Feat: " \o join("/", Seconds(conf.features))
           /\ Text(3) = "Ch: " \o slashed
                            \o "; Feat: " \o BinaryLiteral(last.value % 16)
           /\ Text(4) = "Ch: " \o slashed
           /\ Text(5) = slashed
           /\ Text(6) = BinaryLiteral(last.value)

\* the rank-1 request of a complete write carried 188 = 0b10111100 while the
\* stored configuration byte is another one
C12_Witness ==
    /\ BubbleForRank(1)
    /\ CompleteWrite(packets, last.packet_id)
    /\ last.value = 188
    /\ StoredAt(packets, last.packet_id, last.frame_index).value # 188
    /\ Len(last.ret.list) = 6
    /\ last.ret.list[1].text
           = "Channels: 0, 1, 3; Features: External Reference, Bit Trial Delay, Sample Delay"
    /\ last.ret.list[6].text = "0b10111100"

\* C13 (as claimed): every element of every list a bubble-text request returns
\* is a string; for a complete read transaction of the configured device the
\* rank-1 request returns three strings that render the channel number, bits
\* 5:4 of the data byte the request carries.
C13_AllStrings ==
    (last.op = "bubble" /\ last.ret.raised = "")
    => /\ \A i \in 1 .. Len(last.ret.list) : last.ret.list[i].type = "str"
       /\ (BubbleForRank(1) /\ CompleteRead(packets, last.packet_id))
          => LET channel == ToString((last.value \div 16) % 4)
             IN  /\ Len(last.ret.list) = 3
                 /\ last.ret.list[1].text = "Channel: " \o channel
                 /\ last.ret.list[2].text = "Ch: " \o channel
                 /\ last.ret.list[3].text = channel

\* the ADC code of the data bytes v1, v2 at the configured resolution
CodeOf(v1, v2) == (v1 % 16) * (2 ^ (bits - 4)) + v2 \div (2 ^ (12 - bits))

\* the stored frame of rank k of a transaction
FrameOfRank(pk, packet_id, k) ==
    CHOOSE f \in StoredFramesOf(pk, packet_id) :
        RankOf(pk, packet_id, f.frame_index) = k

ReferenceSet == reference_voltage # None /\ reference_voltage # 0

TabularForRank(k) ==
    /\ last.op = "tabular"
    /\ HasPosition(packets, last.packet_id, last.frame_index)
    /\ RankOf(packets, last.packet_id, last.frame_index) = k

\* C15: for a complete transaction of the configured device, the tabular
\* summary for the rank-1 frame is the same for every value the request may
\* carry and is made of the stored frames: for a read, channel
\* (v1 >> 4) & 0b11 and the ADC code of (v1, v2), the stored values of the
\* rank-1 and rank-2 frames; for a write, the channels and features decoded
\* from the stored rank-1 value.
C15_TabularFromStore ==
    (TabularForRank(1) /\ CompleteOfDevice(packets, last.packet_id))
    => LET v1 == FrameOfRank(packets, last.packet_id, 1).value
       IN  /\ last.ret.raised = ""
           /\ Len(last.ret.list) = 1
           /\ \A sda \in RequestValues :
                  handle_tabular(packets, last.packet_id, last.frame_index, sda)
                      = last.ret
           /\ IF CompleteRead(packets, last.packet_id)
              THEN LET v2 == FrameOfRank(packets, last.packet_id, 2).value
                   IN  last.ret.list[1].text
                          = "[ADC read] channel " \o ToString((v1 \div 16) % 4)
                            \o ": " \o get_displayable_adc_value(CodeOf(v1, v2))
              ELSE LET conf == get_configuration_settings(v1)
                   IN  last.ret.list[1].text
                          = "[ADC config] Channels enabled: "
                            \o join(", ", conf.channels)
                            \o "; Features enabled: "
                            \o join(", ", Firsts(conf.features))

\* a read holding 144 and 145 as data bytes, summarised on a request that
\* carries neither of them
C15_Witness ==
    /\ TabularForRank(1)
    /\ CompleteRead(packets, last.packet_id)
    /\ FrameOfRank(packets, last.packet_id, 1).value = 144
    /\ FrameOfRank(packets, last.packet_id, 2).value = 145
    /\ last.value = 42
    /\ last.ret.list = << [type |-> "str",
                           text |-> "[ADC read] channel 1: 0.1770 V (145)"] >>

\* a list of strings, as a handler returns it
Strings(texts) == [i \in 1 .. Len(texts) |-> [type |-> "str", text |-> texts[i]]]

\* C16: for a complete transaction of the configured device, a bubble-text
\* request for a stored position gets the content of that position's rank,
\* the number of stored positions below it, whether or not the positions are
\* contiguous: rank 0 the transaction title, rank 1 the configuration (write)
\* or channel (read) renderings, rank 2 the measurement.
C16_ContentByRank ==
    ( /\ last.op = "bubble"
      /\ HasPosition(packets, last.packet_id, last.frame_index)
      /\ CompleteOfDevice(packets, last.packet_id) )
    => LET k == RankOf(packets, last.packet_id, last.frame_index)
           write == CompleteWrite(packets, last.packet_id)
           got == last.ret.list
       IN  /\ last.ret.raised = ""
           /\ get_packet_frame_index(packets, last.packet_id, last.frame_index) = k
           /\ k < FramesRequired(HeaderOf(packets, last.packet_id))
           /\ (write /\ k = 0)
                  => got = Strings(<<"Write to ADC Configuration", "W to ADC", "W">>)
           /\ (write /\ k = 1)
                  => /\ Len(got) = 6
                     /\ got[6].text = BinaryLiteral(last.value)
           /\ (~ write /\ k = 0)
                  => got = Strings(<<"Read ADC Value", "R from ADC", "R">>)
           /\ (~ write /\ k = 1)
                  => /\ Len(got) = 3
                     /\ got[1].text
                            = "Channel: " \o ToString((last.value \div 16) % 4)
           /\ (~ write /\ k = 2)
                  => got = Strings(<< get_displayable_adc_value(
                         CodeOf(FrameOfRank(packets, last.packet_id, 1).value,
                                last.value)) >>)

\* a read stored at positions 0, 2 and 3: the request for position 3 gets the
\* measurement (rank 2) and the request for position 2 the channel (rank 1)
C16_Witness ==
    /\ last.op = "bubble"
    /\ CompleteRead(packets, last.packet_id)
    /\ { f.frame_index : f \in StoredFramesOf(packets, last.packet_id) } = {0, 2, 3}
    /\ \/ last.frame_index = 3 /\ Len(last.ret.list) = 1
       \/ last.frame_index = 2 /\ Len(last.ret.list) = 3

\* C17: once a transaction holds a frame at position 0, no frame arrival
\* changes the frame the handlers take as header (the rank-0 frame, which is
\* that frame), nor the device-match verdict and the read/write classification
\* read from it; a repeated arrival for position 0 with another value changes
\* nothing.
C17_HeaderFixed ==
    [][ \A id \in DOMAIN packets :
            (last'.op = "marker" /\ HasPosition(packets, id, 0))
            => LET before == get_packet_frames(packets, id)
                   after == get_packet_frames(packets', id)
               IN  /\ before[1] = StoredAt(packets, id, 0)
                   /\ after[1] = before[1]
                   /\ not_our_device(after[1]) = not_our_device(before[1])
                   /\ header_is_read(after[1]) = header_is_read(before[1])
      ]_vars

\* a transaction with the read header 145 at position 0 and further frames was
\* sent position 0 again, as the write header 144 or as another device's 146
C17_Witness ==
    /\ last.op = "marker"
    /\ last.frame_index = 0
    /\ last.value \in {144, 146}
    /\ Len(PacketsGet(packets, last.packet_id)) >= 2
    /\ HasPosition(packets, last.packet_id, 0)
    /\ get_packet_nth_frame(packets, last.packet_id, 0).value = 145

\* the transaction holds more frames than its header allows
OverLength(pk, packet_id) ==
    /\ StoredFramesOf(pk, packet_id) # {}
    /\ Cardinality(StoredFramesOf(pk, packet_id))
           > FramesRequired(HeaderOf(pk, packet_id))

\* the transaction holds a header and fewer frames than the header asks for
BelowLength(pk, packet_id) ==
    /\ StoredFramesOf(pk, packet_id) # {}
    /\ Cardinality(StoredFramesOf(pk, packet_id))
           < FramesRequired(HeaderOf(pk, packet_id))

\* C18: a transaction that holds more frames than its header allows (more
\* than 2 under a write header, more than 3 under a read header) still does
\* so after every step, whatever frames arrive; and every request for a
\* transaction that is over length, or that holds a header and fewer frames
\* than the header asks for, gets [] (bubble) or [' '] (tabular).
C18_OverLengthPermanent ==
    [][ /\ \A id \in DOMAIN packets :
              OverLength(packets, id) => OverLength(packets', id)
        /\ ( /\ last'.op \in {"bubble", "tabular"}
             /\ \/ OverLength(packets', last'.packet_id)
                \/ BelowLength(packets', last'.packet_id) )
           => last'.ret = NothingToShow(last'.op)
      ]_vars

\* a write of the configured device that went over length at three frames,
\* received a fourth, and is asked for the bubble of one of its positions
C18_Witness ==
    /\ last.op = "bubble"
    /\ HasPosition(packets, last.packet_id, last.frame_index)
    /\ HasPosition(packets, last.packet_id, 0)
    /\ HeaderOf(packets, last.packet_id).value = 2 * address
    /\ Cardinality(StoredFramesOf(packets, last.packet_id)) = 4
    /\ last.ret.list = << >>

\* the summary line of a read whose measurement is shown as the text shown
TabularLineFor(v1, shown) ==
    << [type |-> "str",
        text |-> "[ADC read] channel " \o ToString((v1 \div 16) % 4)
                 \o ": " \o shown] >>

\* C19 (as claimed): for a complete read transaction of the configured device,
\* the measurement (ADC code) in the bubble of the rank-2 frame is the one in
\* the tabular summary of the transaction, whatever value the bubble request
\* carries.
C19_BubbleMatchesTabular ==
    (BubbleForRank(2) /\ CompleteRead(packets, last.packet_id))
    => LET first == FrameOfRank(packets, last.packet_id, 1)
           tabular == handle_tabular(packets, last.packet_id,
                                     first.frame_index, last.value)
       IN  /\ last.ret.raised = "" /\ tabular.raised = ""
           /\ Len(last.ret.list) = 1
           /\ tabular.list = TabularLineFor(first.value, last.ret.list[1].text)

\* C19 (amended): for a complete read transaction of the configured device,
\* the measurement (ADC code) in the bubble of the rank-2 frame is the one in
\* the tabular summary of the transaction whenever the bubble request carries
\* the value stored for the rank-2 frame.
C19_BubbleMatchesTabularOnStoredValue ==
    ( /\ BubbleForRank(2)
      /\ CompleteRead(packets, last.packet_id)
      /\ last.value = FrameOfRank(packets, last.packet_id, 2).value )
    => LET first == FrameOfRank(packets, last.packet_id, 1)
           tabular == handle_tabular(packets, last.packet_id,
                                     first.frame_index, last.value)
       IN  /\ last.ret.raised = "" /\ tabular.raised = ""
           /\ Len(last.ret.list) = 1
           /\ tabular.list = TabularLineFor(first.value, last.ret.list[1].text)

\* a read holding 144 and 188 as data bytes; the bubble request for its rank-2
\* frame carries 188: code 188, 188 / 4096 * 5 = 0.22949...
C19_Witness ==
    /\ BubbleForRank(2)
    /\ CompleteRead(packets, last.packet_id)
    /\ FrameOfRank(packets, last.packet_id, 1).value = 144
    /\ FrameOfRank(packets, last.packet_id, 2).value = 188
    /\ last.value = 188
    /\ last.ret.list = << [type |-> "str", text |-> "0.2295 V (188)"] >>

\* C20 (as claimed): for a resolution above 12 bits and all data bytes frame1,
\* frame2, get_adc_value returns
\* (frame1 & 0xF) * 2^(bits - 4) + frame2 * 2^(bits - 12).
C20_LeftShiftAboveTwelve ==
    (adc_out.done /\ bits > 12)
    => \A frame2 \in 0 .. 255 :
          /\ adc_out.result[frame2].raised = ""
          /\ adc_out.result[frame2].value
                 = (adc_in % 16) * (2 ^ (bits - 4)) + frame2 * (2 ^ (bits - 12))

====
